---- MODULE Spec2Model ----
(***************************************************************************)
(* Temp Mail Proxy API (src/main.py): the request handlers of the proxy    *)
(* and the MailTmClient calls they make, one request per behaviour.        *)
(*                                                                         *)
(* Python strings are modelled as sequences of one-character strings, so   *)
(* that f"{local}@{domain}" is a real concatenation and str.split() and    *)
(* str.lower() are computed character by character.  TLA+ strings are used *)
(* only for control positions, operation names and opaque upstream text.   *)
(***************************************************************************)
EXTENDS Integers, Sequences, FiniteSets, TLC

VARIABLES
    pc,         \* position of the request: "idle", "create_account", "get_token", "me", "done"
    endpoint,   \* the handler serving the request
    body,       \* NewAccountRequest / TokenRequest / query+header inputs of the request
    domains,    \* create_temp_mail: outcome of client.list_domains()
    domain,     \* create_temp_mail: local variable domain
    local,      \* create_temp_mail: local variable local
    address,    \* create_temp_mail: local variable address
    password,   \* create_temp_mail: local variable password
    attempt,    \* create_temp_mail: number of loop iterations begun
    last_err,   \* create_temp_mail: local variable last_err
    token_payload, \* create_temp_mail: local variable token_payload
    token,      \* create_temp_mail: local variable token
    response,   \* what the caller receives
    ncalls,     \* for each upstream operation, the number of calls issued so far
    conflicts,  \* the number of create-account calls the upstream answered with 409
    last_call,  \* the most recent upstream call: operation and status answered
    sent,       \* for each upstream operation, the arguments of its most recent call
    first_address, \* create_temp_mail: the address of the first create-account call
    accounts    \* addresses whose POST /accounts succeeded (upstream side effect)

vars == <<pc, endpoint, body, domains, domain, local, address, password, attempt,
          last_err, token_payload, token, response, ncalls, conflicts, last_call, sent,
          first_address, accounts>>

----------------------------------------------------------------------------
(* Bounds of the model *)

\* number of distinct outcomes of the random generator that are modelled:
\* outcome k of random_local_part(n) is the k-th alphabet character drawn n times
NumDraws == 2

----------------------------------------------------------------------------
(* Values *)

\* Python None: a sequence no character string is equal to
None == <<"None">>

\* Python truthiness of an Optional[str]
Truthy(s) == s # None /\ s # <<>>

\* a loop of five iterations
MaxAttempts_five == 4 + 1

\* range(4) of the retry loop
MaxAttempts == 4

\* random_local_part(10) for the local-part, "P@" + random_local_part(14) for the password
LocalLen == 10
PwLen == 14

\* string.ascii_lowercase + string.digits, the characters the modelled draws use
alphabet == <<"a", "b", "c", "0", "1">>

\* statuses the upstream may answer with
UpstreamStatuses == {200, 201, 403, 409, 500}

\* r.text of an upstream answer (opaque)
RText == "r.text"

HTTPException(status, detail) == [status_code |-> status, detail |-> detail]
NoErr == [status_code |-> 0, detail |-> "None"]

\* dict.get(key, default) on a payload modelled as a record
Get(d, k, default) == IF k \in DOMAIN d THEN d[k] ELSE default

NoResponse == [kind |-> "none", status_code |-> 0, detail |-> "", body |-> <<>>]
Raise(e) == [kind |-> "error", status_code |-> e.status_code, detail |-> e.detail, body |-> <<>>]
Return(b) == [kind |-> "ok", status_code |-> 200, detail |-> "", body |-> b]

Call(op, st) == [op |-> op, status |-> st]
NoCall == Call("none", 0)

\* the upstream call op is issued and answered with status st
Issue(op, st) ==
    /\ ncalls' = [ncalls EXCEPT ![op] = @ + 1]
    /\ last_call' = Call(op, st)
    /\ conflicts' = IF op = "create_account" /\ st = 409 THEN conflicts + 1 ELSE conflicts
Args(addr, pw, tok, extra) == [address |-> addr, password |-> pw, token |-> tok, extra |-> extra]
NoArgs == Args(None, None, None, None)
Ops == {"list_domains", "create_account", "get_token", "me", "messages", "message"}

\* an upstream answer: r.status_code and r.json()
Answer(st, json) == [status_code |-> st, json |-> json]
Ok(v) == [err |-> NoErr, value |-> v]
Err(e) == [err |-> e, value |-> <<>>]

----------------------------------------------------------------------------
(* Inputs *)

\* domain names the provider or the caller may name
D1 == <<"d", ".", "c">>
D2 == <<"e", ".", "c">>
D3 == <<"f", ".", "c">>

\* r.json() of GET /domains
DomainPayloads ==
    { [hydra_member |-> <<>>],
      [detail |-> "no member key"],
      [hydra_member |-> <<[domain |-> D2], [domain |-> D1]>>],
      [hydra_member |-> <<[id |-> "1"], [domain |-> D1]>>],
      [hydra_member |-> <<[domain |-> <<>>]>>] }

\* bodies of POST /api/temp-mail/new: a field is absent, empty or given
NewAccountRequests ==
    [local : {None, <<>>, <<"x">>},
     password : {None, <<"p", "w">>},
     domain : {None, <<>>, D3}]

\* r.json() of POST /token
TokenPayloads == {[token |-> <<"t">>], [token |-> <<"u">>], [id |-> "no token key"]}

\* r.json() of POST /accounts, GET /me, GET /messages, GET /messages/{id} (relayed, never inspected)
AccountPayload == [id |-> "account"]
MessagesPayload == [hydra_member |-> "messages"]
MessagePayload == [id |-> "message"]

\* bodies of POST /api/temp-mail/token
TokenRequests == [address : {<<"x", "@", "d">>}, password : {<<"p", "w">>}]

\* the scheme word in three letter cases, and another scheme
Bearer == <<"B", "e", "a", "r", "e", "r">>
bearer == <<"b", "e", "a", "r", "e", "r">>
BEARER == <<"B", "E", "A", "R", "E", "R">>
Basic == <<"B", "a", "s", "i", "c">>

\* Authorization headers: absent, empty, well formed, and of other shapes
Authorizations ==
    { None,
      <<>>,
      Bearer \o <<" ">> \o <<"h">>,
      bearer \o <<" ">> \o <<"h">>,
      BEARER \o <<" ">> \o <<"h", "2">>,
      <<" ">> \o Bearer \o <<"\t", " ">> \o <<"h">> \o <<" ">>,
      Bearer,
      Bearer \o <<" ">>,
      Bearer \o <<"h">>,
      Bearer \o <<" ">> \o <<"h">> \o <<" ">> \o <<"2">>,
      Basic \o <<" ">> \o <<"h">>,
      <<"h">> \o <<" ">> \o Bearer,
      <<" ">> }

\* query parameter token: absent, empty or given
QueryTokens == {None, <<>>, <<"q">>}

Pages == {1, 2}
MessageIds == {<<"m", "1">>}

----------------------------------------------------------------------------
(* str.split() and str.lower() *)

Whitespace == {" ", "\t"}

\* str.split(): the maximal runs of non-whitespace characters, in order
RECURSIVE split_from(_, _, _, _)
split_from(str, i, word, parts) ==
    IF i > Len(str)
    THEN IF word = <<>> THEN parts ELSE Append(parts, word)
    ELSE IF str[i] \in Whitespace
    THEN split_from(str, i + 1, <<>>, IF word = <<>> THEN parts ELSE Append(parts, word))
    ELSE split_from(str, i + 1, Append(word, str[i]), parts)

split(str) == split_from(str, 1, <<>>, <<>>)

\* str.lower(), on the letters the modelled headers use
upper_letters == <<"B", "E", "A", "R", "S", "I", "C", "H">>
lower_letters == <<"b", "e", "a", "r", "s", "i", "c", "h">>
lower_char(c) ==
    IF \E i \in 1..Len(upper_letters) : upper_letters[i] = c
    THEN lower_letters[CHOOSE i \in 1..Len(upper_letters) : upper_letters[i] = c]
    ELSE c
lower(str) == [i \in 1..Len(str) |-> lower_char(str[i])]

----------------------------------------------------------------------------
(* MailTmClient *)

\* the upstream status of a failed domains call relayed as it is
list_domains_passthrough(r) ==
    IF r.status_code # 200
    THEN Err(HTTPException(r.status_code, "Failed to fetch domains: r.text"))
    ELSE Ok(Get(r.json, "hydra_member", <<>>))

list_domains(r) ==
    IF r.status_code # 200
    THEN Err(HTTPException(502, "Failed to fetch domains: r.text"))
    ELSE Ok(Get(r.json, "hydra_member", <<>>))

create_account(r) ==
    IF r.status_code \notin {200, 201}
    THEN Err(HTTPException(r.status_code, RText))
    ELSE Ok(r.json)

\* the upstream status of a failed token call relayed as it is
get_token_passthrough(r) ==
    IF r.status_code # 200
    THEN Err(HTTPException(r.status_code, RText))
    ELSE Ok(r.json)

get_token(r) ==
    IF r.status_code # 200
    THEN Err(HTTPException(401, RText))
    ELSE Ok(r.json)

me(r) ==
    IF r.status_code # 200
    THEN Err(HTTPException(r.status_code, RText))
    ELSE Ok(r.json)

messages(r) ==
    IF r.status_code # 200
    THEN Err(HTTPException(r.status_code, RText))
    ELSE Ok(r.json)

message(r) ==
    IF r.status_code # 200
    THEN Err(HTTPException(r.status_code, RText))
    ELSE Ok(r.json)

----------------------------------------------------------------------------
(* create_temp_mail *)

\* the modelled outcomes of random_local_part(n): n characters of the alphabet
random_local_part(n) == { [i \in 1..n |-> alphabet[k]] : k \in 1..NumDraws }

\* f"{local}@{domain}"
compose_address(l, d) == l \o <<"@">> \o d

\* the first listed domain preferred to the caller's
resolve_domain_listed_first(b, listed) ==
    IF Truthy(Get(listed[1], "domain", None)) THEN Get(listed[1], "domain", None) ELSE b.domain

\* domain = body.domain or domains[0].get("domain")
resolve_domain(b, listed) ==
    IF Truthy(b.domain) THEN b.domain ELSE Get(listed[1], "domain", None)

\* local = body.local or random_local_part(10)
resolve_local(b) ==
    IF Truthy(b.local) THEN {b.local} ELSE random_local_part(LocalLen)

\* password = body.password or ("P@" + random_local_part(14))
resolve_password(b) ==
    IF Truthy(b.password) THEN {b.password}
    ELSE { <<"P", "@">> \o g : g \in random_local_part(PwLen) }

\* the bundle built from the request's password instead of the one in use
bundle_request_password(a, pw, tok, account) ==
    [address |-> a, password |-> body.password, token |-> tok, account |-> account]

\* lines 131-136: the returned bundle
bundle(a, pw, tok, account) ==
    [address |-> a, password |-> pw, token |-> tok, account |-> account]

\* the handler's "if e.status_code == 409" test
is_conflict(e) == e.status_code = 409

\* lines 145-147: what is raised once the loop is over
after_loop(err) ==
    IF err # NoErr THEN Raise(err)
    ELSE Raise(HTTPException(500, "Failed to create account"))

\* a failed request removes the accounts it created
Finish_cleanup(resp) ==
    /\ response' = resp
    /\ pc' = "done"
    /\ accounts' = IF resp.kind = "error" THEN {} ELSE accounts

\* the request ends with response resp; nothing more is sent upstream
Finish(resp) ==
    /\ response' = resp
    /\ pc' = "done"
    /\ accounts' = accounts

\* the next iteration of "for _ in range(4)", or the end of the loop
NextIteration(err) ==
    IF attempt < MaxAttempts
    THEN /\ attempt' = attempt + 1
         /\ pc' = "create_account"
         /\ response' = response
         /\ accounts' = accounts
    ELSE /\ attempt' = attempt
         /\ Finish(after_loop(err))

\* the handler regenerates the local-part and forgets to recompute the address
except_HTTPException_stale_address(e) ==
    /\ last_err' = e
    /\ IF is_conflict(e)
       THEN /\ \E l \in random_local_part(LocalLen) :
                 /\ local' = l
                 /\ address' = address
            /\ NextIteration(e)
       ELSE /\ Finish(Raise(e))
            /\ UNCHANGED <<local, address, attempt>>

\* the handler retries on a conflict without recording the error
except_HTTPException_unrecorded(e) ==
    /\ last_err' = IF is_conflict(e) THEN last_err ELSE e
    /\ IF is_conflict(e)
       THEN /\ \E l \in random_local_part(LocalLen) :
                 /\ local' = l
                 /\ address' = compose_address(l, domain)
            /\ NextIteration(last_err)
       ELSE /\ Finish(Raise(e))
            /\ UNCHANGED <<local, address, attempt>>

\* except HTTPException as e (lines 137-144)
except_HTTPException(e) ==
    /\ last_err' = e
    /\ IF is_conflict(e)
       THEN /\ \E l \in random_local_part(LocalLen) :
                 /\ local' = l
                 /\ address' = compose_address(l, domain)
            /\ NextIteration(e)
       ELSE /\ Finish(Raise(e))
            /\ UNCHANGED <<local, address, attempt>>

\* lines 107-125: list the domains, resolve domain, local-part and password, enter the loop
create_temp_mail_begin ==
    /\ pc = "idle"
    /\ \E b \in NewAccountRequests, st \in {200, 500}, json \in DomainPayloads :
         /\ endpoint' = "create_temp_mail"
         /\ body' = b
         /\ Issue("list_domains", st)
         /\ domains' = list_domains(Answer(st, json))
         /\ UNCHANGED <<sent, token_payload, token, last_err>>
         /\ IF domains'.err # NoErr
            THEN /\ Finish(Raise(domains'.err))
                 /\ UNCHANGED <<domain, local, address, password, attempt, first_address>>
            ELSE IF domains'.value = <<>>
            THEN /\ Finish(Raise(HTTPException(502, "No domains available from mail.tm")))
                 /\ UNCHANGED <<domain, local, address, password, attempt, first_address>>
            ELSE IF ~Truthy(resolve_domain(b, domains'.value))
            THEN /\ Finish(Raise(HTTPException(502, "Invalid domain from provider")))
                 /\ UNCHANGED <<domain, local, address, password, attempt, first_address>>
            ELSE /\ domain' = resolve_domain(b, domains'.value)
                 /\ \E l \in resolve_local(b), pw \in resolve_password(b) :
                      /\ local' = l
                      /\ address' = compose_address(l, domain')
                      /\ password' = pw
                      /\ first_address' = address'
                 /\ IF MaxAttempts > 0
                    THEN /\ attempt' = 1
                         /\ pc' = "create_account"
                         /\ response' = response
                         /\ accounts' = accounts
                    ELSE /\ attempt' = 0
                         /\ Finish(after_loop(NoErr))

\* line 127: client.create_account(address, password)
create_temp_mail_create_account ==
    /\ pc = "create_account"
    /\ \E st \in UpstreamStatuses :
         LET r == create_account(Answer(st, AccountPayload)) IN
         /\ Issue("create_account", st)
         /\ sent' = [sent EXCEPT !["create_account"] = Args(address, password, None, None)]
         /\ IF r.err = NoErr
            THEN /\ accounts' = accounts \cup {address}
                 /\ pc' = "get_token"
                 /\ UNCHANGED <<local, address, attempt, last_err, response>>
            ELSE except_HTTPException(r.err)
    /\ UNCHANGED <<endpoint, body, domains, domain, password, token_payload, token, first_address>>

\* lines 128-129: client.get_token(address, password); token = token_payload.get("token")
create_temp_mail_get_token ==
    /\ pc = "get_token"
    /\ \E st \in UpstreamStatuses, json \in TokenPayloads :
         LET r == get_token(Answer(st, json)) IN
         /\ Issue("get_token", st)
         /\ sent' = [sent EXCEPT !["get_token"] = Args(address, password, None, None)]
         /\ IF r.err = NoErr
            THEN /\ token_payload' = r.value
                 /\ token' = Get(r.value, "token", None)
                 /\ pc' = "me"
                 /\ UNCHANGED <<local, address, attempt, last_err, response, accounts>>
            ELSE /\ UNCHANGED <<token_payload, token>>
                 /\ except_HTTPException(r.err)
    /\ UNCHANGED <<endpoint, body, domains, domain, password, first_address>>

\* lines 130-136: client.me(token) and the returned bundle
create_temp_mail_me ==
    /\ pc = "me"
    /\ \E st \in UpstreamStatuses :
         LET r == me(Answer(st, AccountPayload)) IN
         /\ Issue("me", st)
         /\ sent' = [sent EXCEPT !["me"] = Args(None, None, token, None)]
         /\ IF r.err = NoErr
            THEN /\ Finish(Return(bundle(address, password, token, r.value)))
                 /\ UNCHANGED <<local, address, attempt, last_err>>
            ELSE except_HTTPException(r.err)
    /\ UNCHANGED <<endpoint, body, domains, domain, password, token_payload, token, first_address>>

----------------------------------------------------------------------------
(* The single-call handlers *)

\* the create_temp_mail locals are not touched by the other handlers
ProvisionerUnchanged ==
    UNCHANGED <<domains, domain, local, address, password, attempt, last_err,
                token_payload, token, first_address>>

\* GET /api/domains
get_domains ==
    /\ pc = "idle"
    /\ \E st \in {200, 500}, json \in DomainPayloads :
         LET r == list_domains(Answer(st, json)) IN
         /\ endpoint' = "get_domains"
         /\ body' = [json |-> json]
         /\ Issue("list_domains", st)
         /\ sent' = sent
         /\ Finish(IF r.err # NoErr THEN Raise(r.err) ELSE Return([domains |-> r.value]))
    /\ ProvisionerUnchanged

\* POST /api/temp-mail/token
create_token ==
    /\ pc = "idle"
    /\ \E b \in TokenRequests, st \in UpstreamStatuses, json \in TokenPayloads :
         LET r == get_token(Answer(st, json)) IN
         /\ endpoint' = "create_token"
         /\ body' = b
         /\ Issue("get_token", st)
         /\ sent' = [sent EXCEPT !["get_token"] = Args(b.address, b.password, None, None)]
         /\ Finish(IF r.err # NoErr THEN Raise(r.err) ELSE Return(r.value))
    /\ ProvisionerUnchanged

\* the Authorization header preferred to the query parameter
list_messages_actual_token_header_first(query_token, authorization) ==
    IF Truthy(authorization)
    THEN LET parts == split(authorization) IN
         IF Len(parts) = 2 /\ lower(parts[1]) = bearer
         THEN parts[2]
         ELSE query_token
    ELSE query_token

\* list_messages, lines 163-167: the token the handler goes on with
list_messages_actual_token(query_token, authorization) ==
    IF ~Truthy(query_token) /\ Truthy(authorization)
    THEN LET parts == split(authorization) IN
         IF Len(parts) = 2 /\ lower(parts[1]) = bearer
         THEN parts[2]
         ELSE query_token
    ELSE query_token

\* get_message, lines 181-185: the token the handler goes on with
get_message_actual_token(query_token, authorization) ==
    IF ~Truthy(query_token) /\ Truthy(authorization)
    THEN LET parts == split(authorization) IN
         IF Len(parts) = 2 /\ lower(parts[1]) = bearer
         THEN parts[2]
         ELSE query_token
    ELSE query_token

\* GET /api/temp-mail/messages
list_messages ==
    /\ pc = "idle"
    /\ \E authorization \in Authorizations, query_token \in QueryTokens, page \in Pages,
          st \in UpstreamStatuses :
         LET actual_token == list_messages_actual_token(query_token, authorization)
             r == messages(Answer(st, MessagesPayload)) IN
         /\ endpoint' = "list_messages"
         /\ body' = [authorization |-> authorization, token |-> query_token]
         /\ IF ~Truthy(actual_token)
            THEN /\ Finish(Raise(HTTPException(400, "Missing token")))
                 /\ UNCHANGED <<ncalls, conflicts, last_call, sent>>
            ELSE /\ Issue("messages", st)
                 /\ sent' = [sent EXCEPT !["messages"] = Args(None, None, actual_token, page)]
                 /\ Finish(IF r.err # NoErr THEN Raise(r.err) ELSE Return(r.value))
    /\ ProvisionerUnchanged

\* GET /api/temp-mail/messages/{message_id}
get_message ==
    /\ pc = "idle"
    /\ \E authorization \in Authorizations, query_token \in QueryTokens,
          message_id \in MessageIds, st \in UpstreamStatuses :
         LET actual_token == get_message_actual_token(query_token, authorization)
             r == message(Answer(st, MessagePayload)) IN
         /\ endpoint' = "get_message"
         /\ body' = [authorization |-> authorization, token |-> query_token]
         /\ IF ~Truthy(actual_token)
            THEN /\ Finish(Raise(HTTPException(400, "Missing token")))
                 /\ UNCHANGED <<ncalls, conflicts, last_call, sent>>
            ELSE /\ Issue("message", st)
                 /\ sent' = [sent EXCEPT !["message"] = Args(None, None, actual_token, message_id)]
                 /\ Finish(IF r.err # NoErr THEN Raise(r.err) ELSE Return(r.value))
    /\ ProvisionerUnchanged

----------------------------------------------------------------------------

Init ==
    /\ pc = "idle"
    /\ endpoint = "none"
    /\ body = [local |-> None, password |-> None, domain |-> None]
    /\ domains = Ok(<<>>)
    /\ domain = None
    /\ local = None
    /\ address = None
    /\ password = None
    /\ attempt = 0
    /\ last_err = NoErr
    /\ token_payload = [id |-> "None"]
    /\ token = None
    /\ response = NoResponse
    /\ ncalls = [op \in Ops |-> 0]
    /\ conflicts = 0
    /\ last_call = NoCall
    /\ sent = [op \in Ops |-> NoArgs]
    /\ first_address = None
    /\ accounts = {}

Next ==
    \/ create_temp_mail_begin
    \/ create_temp_mail_create_account
    \/ create_temp_mail_get_token
    \/ create_temp_mail_me
    \/ get_domains
    \/ create_token
    \/ list_messages
    \/ get_message

Spec == Init /\ [][Next]_vars

----------------------------------------------------------------------------
(* Properties *)

CTM == endpoint = "create_temp_mail"
Done == pc = "done"
Succeeded == response.kind = "ok"
Failed == response.kind = "error"

\* the `domain` field of the first listed domain, None when there is none
ListedDomain ==
    IF domains.value = <<>> THEN None ELSE Get(domains.value[1], "domain", None)

\* the domain the contract names: the caller's if supplied, otherwise the first listed
ResolvedDomain == IF Truthy(body.domain) THEN body.domain ELSE ListedDomain

\* C1's case: the first N create-account calls were answered 409, call N+1 was
\* answered 200/201, and the token call and the account-info call then succeeded
FirstNConflicts ==
    /\ CTM
    /\ last_call = Call("me", 200)
    /\ ncalls["me"] = 1
    /\ ncalls["get_token"] = 1
    /\ ncalls["create_account"] = conflicts + 1
    /\ conflicts < 4

\* C1 as stated: after N < 4 conflicts followed by a successful attempt the request
\* succeeds, and for N >= 1 the returned address differs from the first address tried
C1_Original ==
    FirstNConflicts =>
        /\ Done /\ Succeeded
        /\ (conflicts >= 1 => response.body.address # first_address)

\* C1, amended: after N < 4 conflicts followed by a successful attempt the request
\* succeeds and returns the address of create-account call N+1; for N >= 1 that address
\* is the local-part regenerated after the N-th 409 + "@" + the domain (it differs from
\* the first address tried unless the generator draws the same local-part again), and
\* for N = 0 it is the first address tried
C1_Amended ==
    FirstNConflicts =>
        /\ Done /\ Succeeded
        /\ response.body.address = sent["create_account"].address
        /\ (conflicts >= 1 =>
               /\ local \in random_local_part(LocalLen)
               /\ response.body.address = local \o <<"@">> \o domain)
        /\ (conflicts = 0 => response.body.address = first_address)

C1_Witness ==
    /\ FirstNConflicts /\ Done /\ Succeeded
    /\ conflicts = 3
    /\ response.body.address # first_address

\* C2: when every create-account call is answered 409 the request makes exactly 4 of
\* them, no token or account-info call, and fails with 409; no run makes more than 4
\* create-account calls, the other calls are bounded by them, and a request that has
\* not ended is at one of its three upstream calls
C2_Theorem ==
    /\ ncalls["create_account"] <= 4
    /\ (CTM => /\ ncalls["get_token"] <= ncalls["create_account"]
               /\ ncalls["me"] <= ncalls["get_token"]
               /\ ncalls["list_domains"] = 1)
    /\ (CTM /\ ~Done => pc \in {"create_account", "get_token", "me"})
    /\ (CTM /\ conflicts = ncalls["create_account"] =>
            ncalls["get_token"] = 0 /\ ncalls["me"] = 0)
    /\ (CTM /\ Done /\ ncalls["create_account"] >= 1 /\ conflicts = ncalls["create_account"] =>
            /\ ncalls["create_account"] = 4
            /\ Failed
            /\ response.status_code = 409)

C2_Witness ==
    /\ CTM /\ Done /\ Failed
    /\ conflicts = 4
    /\ ncalls["create_account"] = 4
    /\ response.status_code = 409

\* C3 as stated: a new attempt is begun only after a create-account call answered 409;
\* a create-account failure with another status, and every failure of the token call or
\* of the account-info call, ends the request with an error
C3_Claim ==
    CTM =>
        /\ (pc = "create_account" /\ attempt > 1 => last_call = Call("create_account", 409))
        /\ (last_call.op = "create_account" /\ last_call.status \notin {200, 201, 409} =>
                Done /\ Failed)
        /\ (last_call.op \in {"get_token", "me"} /\ last_call.status # 200 =>
                Done /\ Failed)

\* C4 as stated: a successful request with a caller-supplied local-part returns the
\* supplied local-part + "@" + the resolved domain, whatever preceded the success
C4_Original ==
    CTM /\ Done /\ Succeeded /\ Truthy(body.local) =>
        response.body.address = body.local \o <<"@">> \o ResolvedDomain

\* C4, amended: a successful request whose first attempt succeeded (no 409 was met)
\* returns the supplied (non-empty) local-part + "@" + the resolved domain; after a 409
\* the returned address is a regenerated local-part + "@" + the resolved domain
C4_Amended ==
    CTM /\ Done /\ Succeeded =>
        /\ (Truthy(body.local) /\ attempt = 1 =>
                response.body.address = body.local \o <<"@">> \o ResolvedDomain)
        /\ (attempt > 1 =>
                \E l \in random_local_part(LocalLen) :
                    response.body.address = l \o <<"@">> \o ResolvedDomain)

C4_Witness ==
    /\ CTM /\ Done /\ Succeeded
    /\ Truthy(body.local) /\ ~Truthy(body.domain)
    /\ attempt = 1
    /\ response.body.address = body.local \o <<"@">> \o D2

\* the scheme word in any letter case
IsBearerWord(w) ==
    /\ Len(w) = Len(bearer)
    /\ \A i \in 1..Len(w) : w[i] \in {bearer[i], BEARER[i]}

IsBlank(str) == \A i \in 1..Len(str) : str[i] \in Whitespace
IsWord(str) == str # <<>> /\ \A i \in 1..Len(str) : str[i] \notin Whitespace

\* the tokens t for which header h is blank* scheme blank+ t blank*, scheme a bearer word
BearerTokens(h) ==
    { SubSeq(h, q[3], q[4]) :
        q \in { p \in (1..Len(h)) \X (1..Len(h)) \X (1..Len(h)) \X (1..Len(h)) :
                  /\ p[1] <= p[2] /\ p[2] + 1 < p[3] /\ p[3] <= p[4]
                  /\ IsBlank(SubSeq(h, 1, p[1] - 1))
                  /\ IsWord(SubSeq(h, p[1], p[2])) /\ IsBearerWord(SubSeq(h, p[1], p[2]))
                  /\ IsBlank(SubSeq(h, p[2] + 1, p[3] - 1))
                  /\ IsWord(SubSeq(h, p[3], p[4]))
                  /\ IsBlank(SubSeq(h, p[4] + 1, Len(h))) } }

MessageOp == IF endpoint = "list_messages" THEN "messages" ELSE "message"

\* C5: in list_messages and get_message a present (non-empty) query token is the token
\* sent upstream, whatever the header; otherwise a header of two whitespace-separated
\* parts whose first is "bearer" in any letter case gives its second part; in every other
\* case the request fails with 400 and nothing is sent upstream
C5_Theorem ==
    endpoint \in {"list_messages", "get_message"} /\ Done =>
        IF Truthy(body.token)
        THEN ncalls[MessageOp] = 1 /\ sent[MessageOp].token = body.token
        ELSE IF body.authorization # None /\ BearerTokens(body.authorization) # {}
        THEN ncalls[MessageOp] = 1 /\ sent[MessageOp].token \in BearerTokens(body.authorization)
        ELSE /\ Failed
             /\ response.status_code = 400
             /\ \A op \in Ops : ncalls[op] = 0

C5_Witness ==
    /\ endpoint = "get_message" /\ Done
    /\ ~Truthy(body.token)
    /\ body.authorization = BEARER \o <<" ">> \o <<"h", "2">>
    /\ sent["message"].token = <<"h", "2">>

\* C6: whatever non-200 status the token call is answered with, the caller sees 401,
\* in create_token and in create_temp_mail
C6_Theorem ==
    endpoint \in {"create_token", "create_temp_mail"}
    /\ last_call.op = "get_token" /\ last_call.status # 200 =>
        Done /\ Failed /\ response.status_code = 401

C6_Witness ==
    /\ CTM /\ Done /\ Failed
    /\ last_call = Call("get_token", 409)
    /\ response.status_code = 401

\* C7: create_temp_mail fails with 502 before any create-account call when the domains
\* call is not a 200, when no domain is listed (a supplied domain does not help), or when
\* no domain is supplied and the first listed entry has no usable domain; otherwise a
\* supplied (non-empty) domain is the one used, listed or not
C7_Theorem ==
    CTM =>
        IF \/ (ncalls["create_account"] = 0 /\ last_call.op = "list_domains"
                                           /\ last_call.status # 200)
           \/ domains.value = <<>>
           \/ (~Truthy(body.domain) /\ ~Truthy(ListedDomain))
        THEN /\ Done /\ Failed
             /\ response.status_code = 502
             /\ ncalls["create_account"] = 0
        ELSE /\ ~(Failed /\ response.status_code = 502 /\ ncalls["create_account"] = 0)
             /\ (Truthy(body.domain) => domain = body.domain)
             /\ (~Truthy(body.domain) => domain = ListedDomain)
             /\ address = local \o <<"@">> \o domain

C7_Witness ==
    /\ CTM /\ Done /\ Failed
    /\ response.status_code = 502
    /\ body.domain = D3
    /\ last_call = Call("list_domains", 200)
    /\ domains.value = <<>>

\* C8: the generic internal error is never raised: a create_temp_mail request returns a
\* bundle, or fails with 502 before the loop, or fails with the error recorded from the
\* last upstream call (401 for the token call, the upstream status otherwise), also
\* when the 4 attempts are used up
C8_Theorem ==
    /\ response.detail # "Failed to create account"
    /\ (CTM /\ Done =>
            \/ Succeeded
            \/ /\ Failed
               /\ IF ncalls["create_account"] = 0
                  THEN response.status_code = 502
                  ELSE /\ response = Raise(last_err)
                       /\ last_err.status_code =
                              IF last_call.op = "get_token" THEN 401 ELSE last_call.status)

C8_Witness ==
    /\ CTM /\ Done /\ Failed
    /\ attempt = 4
    /\ conflicts = 4
    /\ response = Raise(last_err)

\* the account the token call was made for exists upstream
TokenAccountExists ==
    CTM /\ ncalls["get_token"] >= 1 => sent["get_token"].address \in accounts

\* C9: nothing create_temp_mail does removes an upstream account: in every step the set
\* of accounts only grows, and the account the token call was made for is still there,
\* also when the request has failed
C9_Theorem ==
    [][accounts \subseteq accounts' /\ TokenAccountExists']_vars

\* a failed request that leaves an account behind
C9_Witness ==
    /\ CTM /\ Done /\ Failed
    /\ accounts # {}
    /\ last_call = Call("me", 500)

\* the bundle agrees with the arguments of the last calls
BundleConsistent ==
    CTM /\ Done /\ Succeeded =>
        /\ response.body.address = sent["create_account"].address
        /\ response.body.address = sent["get_token"].address
        /\ response.body.password = sent["create_account"].password
        /\ response.body.password = sent["get_token"].password
        /\ response.body.token = Get(token_payload, "token", None)
        /\ response.body.token = sent["me"].token

\* C10: a returned bundle holds the address and password of the last create-account
\* call and of the token call, and the token that call produced and the account-info
\* call used; the password and the domain never change once chosen
C10_Theorem ==
    [][/\ BundleConsistent'
       /\ (CTM /\ pc # "idle" => password' = password /\ domain' = domain)]_vars

C10_Witness ==
    /\ CTM /\ Done /\ Succeeded
    /\ attempt = 3
    /\ ~Truthy(body.password)
    /\ response.body.token = <<"u">>

====
